---- MODULE Spec2Model ----
(***************************************************************************)
(* The keystroke recorder of frontend/src/App.jsx: the React component     *)
(* App, its state (useState), its refs (useRef) and its event handlers.    *)
(*                                                                         *)
(* A handler is one action.  Inside a handler the state variables read are *)
(* the ones of the render the handler was created in (the unprimed         *)
(* variables); a set...() call only takes effect at the next render (the   *)
(* primed variables).  A ref (.current) is written at once and is read     *)
(* back by the rest of the same handler.  React renders again after every  *)
(* discrete DOM event, so the next handler sees the state the previous one *)
(* left.                                                                   *)
(***************************************************************************)
EXTENDS Integers, Sequences, FiniteSets, TLC

\* ------------------------------------------------------------------ bounds

\* Date.now() runs over 1..MaxTime (milliseconds).
MaxTime == 2
\* The longest event list (keystrokeData) the environment builds.
MaxEvents == 2
\* The longest content of the textarea the environment builds.
MaxText == 1

\* ------------------------------------------------------------- JS values

\* null and undefined, as numbers no time of the model takes
Null == -100
Undefined == -200

\* !v for the values a press time or a start time takes (lines 76, 173).
Falsy(v) == v = Null \/ v = Undefined \/ v = 0

\* ------------------------------------------------------------ the events

\* e.key of the keys the model presses.
PrintableKeys == {"a", " "}
OtherKeys == {"Enter", "Backspace", "Tab", "Escape", "F1", "Shift"}
Keys == PrintableKeys \cup OtherKeys

\* e.keyCode of a key.
KeyCode(key) ==
  CASE key = "a" -> 65
    [] key = " " -> 32
    [] key = "Enter" -> 13
    [] key = "Backspace" -> 8
    [] key = "Tab" -> 9
    [] key = "Escape" -> 27
    [] key = "F1" -> 112
    [] OTHER -> 16

\* String(n) of the key codes.
String(n) ==
  CASE n = 65 -> "65"
    [] n = 32 -> "32"
    [] n = 13 -> "13"
    [] n = 8 -> "8"
    [] n = 9 -> "9"
    [] n = 27 -> "27"
    [] n = 112 -> "112"
    [] n = 16 -> "16"
    [] OTHER -> "0"

\* e.key.startsWith("F")
StartsWithF(key) == key \in {"F1", "F"}

KeyEvent(key, repeat, ctrlKey, metaKey) ==
  [key |-> key, repeat |-> repeat, ctrlKey |-> ctrlKey, metaKey |-> metaKey]

\* The key-down events delivered to the textarea: every key pressed, the
\* printable keys and Enter auto-repeated, and the chords ctrl+a and meta+a.
KeyDownEvents ==
  {KeyEvent(k, FALSE, FALSE, FALSE) : k \in Keys}
    \cup {KeyEvent(k, TRUE, FALSE, FALSE) : k \in PrintableKeys \cup {"Enter"}}
    \cup {KeyEvent("a", FALSE, TRUE, FALSE), KeyEvent("a", FALSE, FALSE, TRUE)}

\* The key-up events delivered to the textarea.
KeyUpKeys == PrintableKeys \cup {"Enter"}

Usernames == {"", "u1"}

\* data.sessionCount of the answers to GET /api/users/{id}/stats
SessionCounts == {0, 1}

EmptyTimes == [k \in PrintableKeys |-> Undefined]

VARIABLES
  view,               \* useState("home"): "home" | "train" | "test"
  username,           \* useState("")
  trainCount,         \* useState(0)
  isRecording,        \* useState(false)
  isCompleted,        \* useState(false)
  keystrokeData,      \* useState([]): the event list
  text,               \* useState(""): the typed text, a sequence of characters
  lastResponse,       \* useState(null)
  errorMsg,           \* useState("")
  verificationMatrix, \* useState(null)
  sessionStartTime,   \* useRef(null)
  keyDownTimes,       \* useRef({}): key -> buffered press time
  now,                \* Date.now()
  domInput,           \* the input event the browser dispatches after a key-down
  inflight,           \* the POSTs of submitData whose fetch has not settled
  sent,               \* the POST the handler that ran last has sent, if any
  hist,               \* history: what the run has done (no program state)
  last                \* history: the handler that ran last

\* everything but last
state ==
  <<view, username, trainCount, isRecording, isCompleted, keystrokeData,
    text, lastResponse, errorMsg, verificationMatrix, sessionStartTime,
    keyDownTimes, now, domInput, inflight, sent, hist>>

vars == <<state, last>>

\* ------------------------------------------------------- pure helpers

\* line 137: the key-down starts a session
ShouldStart(rec, comp) == ~rec /\ ~comp

\* Suppressed without the test of e.ctrlKey
SuppressedNoCtrl(e) ==
  \/ (StartsWithF(e.key) /\ Len(e.key) > 1)
  \/ e.key = "Escape"
  \/ e.key = "Tab"
  \/ e.metaKey

\* lines 156-162: the suppressed keys
Suppressed(e) ==
  \/ (StartsWithF(e.key) /\ Len(e.key) > 1)
  \/ e.key = "Escape"
  \/ e.key = "Tab"
  \/ e.metaKey
  \/ e.ctrlKey

\* IsRepeat that takes no key-down for a repeat
IsRepeatNever(e) == FALSE

\* line 171
IsRepeat(e) == e.repeat

\* lines 167 and 182: the keys that are timed
IsPrintable(key) == Len(key) = 1 \/ key = "Space"

\* DropLast as prev.slice(1)
DropFirst(prev) == SubSeq(prev, 2, Len(prev))

\* line 151: prev.slice(0, -1)
DropLast(prev) == SubSeq(prev, 1, Len(prev) - 1)

\* FlightTime clamped at 0
FlightTimeClamped(keyDownTime, data) ==
  IF Len(data) > 0 /\ keyDownTime > data[Len(data)].releaseTime
  THEN keyDownTime - data[Len(data)].releaseTime
  ELSE 0

\* lines 191-194
FlightTime(keyDownTime, data) ==
  IF Len(data) > 0 THEN keyDownTime - data[Len(data)].releaseTime ELSE 0

\* line 189
DwellTime(keyDownTime, timestamp) == timestamp - keyDownTime

\* lines 196-203
Keystroke(key, keyDownTime, timestamp, data) ==
  [key |-> IF key = " " THEN "Space" ELSE key,
   keyCode |-> String(KeyCode(key)),
   pressTime |-> keyDownTime,
   releaseTime |-> timestamp,
   dwellTime |-> DwellTime(keyDownTime, timestamp),
   flightTime |-> FlightTime(keyDownTime, data)]

\* AppendEvent as [keystroke, ...prev]
PrependEvent(prev, keystroke) == <<keystroke>> \o prev

\* line 205: [...prev, keystroke]
AppendEvent(prev, keystroke) == Append(prev, keystroke)

\* Timestamp without the session start
TimestampAbsolute(t, start) == t

\* lines 169 and 185: Date.now() - sessionStartTime.current
Timestamp(t, start) == t - start

\* ------------------------------------------------------------- history

NoHold == [kind |-> "none", first |-> 0]

\* hist.hold[k]: the non-repeat key-downs of k handled since k's last key-up:
\*   "none"; "idle", one and it was handled while Idle; "one", one and it was
\*   handled while Recording at Date.now() = first; "many", two or more.
\* hist.pressedAt[k]: Date.now() when keyDownTimes[k] was written.
\* hist.abs[i]: Date.now() at the press and the release of keystrokeData[i],
\*   and the view its key-up was handled in.
\* hist.posts: the requests submitData has sent since the last reset.
HistInit ==
  [hold |-> [k \in PrintableKeys |-> NoHold],
   pressedAt |-> [k \in PrintableKeys |-> Undefined],
   abs |-> <<>>,
   posts |-> 0]

\* last: the handler that ran last (op), the state of the recorder it ran in
\* (at) and whether it changed anything (did).  A call that changes nothing
\* and repeats the kind of the call before it is a stuttering step; the same
\* call is then also a step from a state that differs in last alone, the one
\* the first such call was made in, so every call of a handler is a step of
\* some behaviour that is no stuttering step.
LastOf(op, at) == [op |-> op, at |-> at, did |-> state' # state]

NoInput == [kind |-> "none", ch |-> ""]

NoPost == [endpoint |-> ""]

\* null, where the other values are the JSON of a response
NoData == [userId |-> "", endpoint |-> ""]

Init ==
  /\ view = "home"
  /\ username = ""
  /\ trainCount = 0
  /\ isRecording = FALSE
  /\ isCompleted = FALSE
  /\ keystrokeData = <<>>
  /\ text = <<>>
  /\ lastResponse = NoData
  /\ errorMsg = ""
  /\ verificationMatrix = NoData
  /\ sessionStartTime = Null
  /\ keyDownTimes = EmptyTimes
  /\ now = 1
  /\ domInput = NoInput
  /\ inflight = {}
  /\ sent = NoPost
  /\ hist = HistInit
  /\ last = [op |-> "init", at |-> "Idle", did |-> FALSE]

\* ------------------------------------------------ the component's state

\* The state and the refs a handler works on.  A handler reads the state
\* variables of its render (unprimed) and builds the record of what the next
\* render sees; the refs and the history it reads back from the record.
Cur ==
  [isRecording |-> isRecording, isCompleted |-> isCompleted,
   keystrokeData |-> keystrokeData, text |-> text,
   lastResponse |-> lastResponse, errorMsg |-> errorMsg,
   verificationMatrix |-> verificationMatrix,
   sessionStartTime |-> sessionStartTime, keyDownTimes |-> keyDownTimes,
   hist |-> hist]

Commit(c) ==
  /\ isRecording' = c.isRecording
  /\ isCompleted' = c.isCompleted
  /\ keystrokeData' = c.keystrokeData
  /\ text' = c.text
  /\ lastResponse' = c.lastResponse
  /\ errorMsg' = c.errorMsg
  /\ verificationMatrix' = c.verificationMatrix
  /\ sessionStartTime' = c.sessionStartTime
  /\ keyDownTimes' = c.keyDownTimes
  /\ hist' = c.hist

\* resetInternalState without setKeystrokeData([])
resetKeepsEvents(c) ==
  [c EXCEPT !.isRecording = FALSE,
            !.isCompleted = FALSE,
            !.sessionStartTime = Null,
            !.keyDownTimes = EmptyTimes,
            !.text = <<>>,
            !.lastResponse = NoData,
            !.verificationMatrix = NoData,
            !.errorMsg = "",
            !.hist.hold = HistInit.hold,
            !.hist.pressedAt = HistInit.pressedAt,
            !.hist.posts = 0]

\* resetInternalState without keyDownTimes.current = {}
resetKeepsBuffer(c) ==
  [c EXCEPT !.isRecording = FALSE,
            !.isCompleted = FALSE,
            !.sessionStartTime = Null,
            !.keystrokeData = <<>>,
            !.text = <<>>,
            !.lastResponse = NoData,
            !.verificationMatrix = NoData,
            !.errorMsg = "",
            !.hist = [HistInit EXCEPT !.pressedAt = c.hist.pressedAt]]

\* resetInternalState without sessionStartTime.current = null
resetKeepsStartTime(c) ==
  [c EXCEPT !.isRecording = FALSE,
            !.isCompleted = FALSE,
            !.keyDownTimes = EmptyTimes,
            !.keystrokeData = <<>>,
            !.text = <<>>,
            !.lastResponse = NoData,
            !.verificationMatrix = NoData,
            !.errorMsg = "",
            !.hist = HistInit]

\* lines 59-73 (the timer of line 70 only moves the focus)
resetInternalState(c) ==
  [c EXCEPT !.isRecording = FALSE,
            !.isCompleted = FALSE,
            !.sessionStartTime = Null,
            !.keyDownTimes = EmptyTimes,
            !.keystrokeData = <<>>,
            !.text = <<>>,
            !.lastResponse = NoData,
            !.verificationMatrix = NoData,
            !.errorMsg = "",
            !.hist = HistInit]

\* lines 75-85
startSession(c) ==
  IF Falsy(c.sessionStartTime)
  THEN [c EXCEPT !.sessionStartTime = now,
                 !.isRecording = TRUE,
                 !.keystrokeData = <<>>,
                 !.text = <<>>,
                 !.keyDownTimes = EmptyTimes,
                 !.isCompleted = FALSE,
                 !.errorMsg = "",
                 !.hist.pressedAt = [k \in PrintableKeys |-> Undefined],
                 !.hist.abs = <<>>]
  ELSE c

\* stopSession without setIsRecording(false)
stopSessionStillRecording(c) == [c EXCEPT !.isCompleted = TRUE]

\* lines 87-89
stopSession(c) == [c EXCEPT !.isRecording = FALSE, !.isCompleted = TRUE]

\* WillSubmit without the tests of the length
WillSubmitAlways(data) == TRUE

\* lines 90 and 96: stopSession calls submitData, which sends
WillSubmit(data) == Len(data) > 0 /\ ~(Len(data) = 0)

\* Endpoint without the test of the view
EndpointSessions(v) == "/api/sessions"

\* line 105
Endpoint(v) == IF v = "test" THEN "/api/verify" ELSE "/api/sessions"

\* line 101: new Date(t).toISOString(), the date and time of day of the
\* instant t to the millisecond: the day and the milliseconds since midnight
\* (the instants of a run lie within one day)
toISOString(t) == <<"1970-01-01", t>>

\* lines 98-112: the request submitData sends, from the render it runs in
Payload ==
  [endpoint |-> Endpoint(view),
   userId |-> username,
   text |-> text,
   startedAt |-> toISOString(now),
   keystrokes |-> keystrokeData]

\* lines 173-175
BufferPress(c, key, timestamp) ==
  IF Falsy(c.keyDownTimes[key])
  THEN [c EXCEPT !.keyDownTimes[key] = timestamp,
                 !.hist.pressedAt[key] = now]
  ELSE c

\* lines 136-177.  c: what the next render sees; prevented: e.preventDefault()
\* was called; submit: submitData sent its request.
handleKeyDown(e) ==
  LET c1 == IF ShouldStart(isRecording, isCompleted)
            THEN startSession(Cur) ELSE Cur
      Out(c, prevented, submit) ==
        [c |-> c, prevented |-> prevented, submit |-> submit]
  IN
  IF ~isRecording THEN Out(c1, FALSE, FALSE)
  ELSE IF e.key = "Enter"
    THEN Out(stopSession(c1), TRUE, WillSubmit(keystrokeData))
  ELSE IF e.key = "Backspace"
    THEN IF Len(keystrokeData) > 0
         THEN Out([c1 EXCEPT !.keystrokeData = DropLast(c1.keystrokeData),
                             !.hist.abs = DropLast(c1.hist.abs)],
                  FALSE, FALSE)
         ELSE Out(c1, FALSE, FALSE)
  ELSE IF Suppressed(e) THEN Out(c1, TRUE, FALSE)
  ELSE IF IsPrintable(e.key)
    THEN IF IsRepeat(e) THEN Out(c1, FALSE, FALSE)
         ELSE Out(BufferPress(c1, e.key,
                              Timestamp(now, c1.sessionStartTime)),
                  FALSE, FALSE)
  ELSE Out(c1, FALSE, FALSE)

\* handleKeyUp without the return of line 180
handleKeyUpWhenStopped(e) ==
  IF ~IsPrintable(e.key) THEN Cur
  ELSE LET key == e.key
           timestamp == Timestamp(now, sessionStartTime)
           keyDownTime == keyDownTimes[key]
       IN IF keyDownTime # Undefined
          THEN [Cur EXCEPT
                  !.keystrokeData =
                     AppendEvent(keystrokeData,
                                 Keystroke(key, keyDownTime, timestamp,
                                           keystrokeData)),
                  !.keyDownTimes[key] = Undefined,
                  !.hist.abs =
                     Append(hist.abs,
                            [p |-> hist.pressedAt[key], r |-> now,
                             view |-> view]),
                  !.hist.pressedAt[key] = Undefined]
          ELSE Cur

\* lines 179-208
handleKeyUp(e) ==
  IF ~isRecording THEN Cur
  ELSE IF ~IsPrintable(e.key) THEN Cur
  ELSE LET key == e.key
           timestamp == Timestamp(now, sessionStartTime)
           keyDownTime == keyDownTimes[key]
       IN IF keyDownTime # Undefined
          THEN [Cur EXCEPT
                  !.keystrokeData =
                     AppendEvent(keystrokeData,
                                 Keystroke(key, keyDownTime, timestamp,
                                           keystrokeData)),
                  !.keyDownTimes[key] = Undefined,
                  !.hist.abs =
                     Append(hist.abs,
                            [p |-> hist.pressedAt[key], r |-> now,
                             view |-> view]),
                  !.hist.pressedAt[key] = Undefined]
          ELSE Cur

\* lines 210-213
handleChange(value) ==
  IF ~isRecording THEN Cur ELSE [Cur EXCEPT !.text = value]

\* ------------------------------------------------------------ the states

Idle == ~isRecording /\ ~isCompleted
Recording == isRecording /\ ~isCompleted
Completed == isCompleted /\ ~isRecording

StateName ==
  IF Idle THEN "Idle" ELSE IF Recording THEN "Recording" ELSE "Completed"

\* --------------------------------------------------- the browser's part

\* The input event that follows a key-down whose default was not prevented:
\* the browser edits the textarea (lines 335-341: it is there in the train
\* and test views, disabled once isCompleted) and fires onChange.
DefaultAction(e, prevented, value) ==
  IF prevented \/ isCompleted \/ e.ctrlKey \/ e.metaKey THEN NoInput
  ELSE IF IsPrintable(e.key) /\ Len(value) < MaxText
    THEN [kind |-> "insert", ch |-> e.key]
  ELSE IF e.key = "Enter" /\ Len(value) < MaxText
    THEN [kind |-> "insert", ch |-> "\n"]
  ELSE IF e.key = "Backspace" /\ Len(value) > 0
    THEN [kind |-> "delete", ch |-> ""]
  ELSE NoInput

\* e.target.value of that input event
EditedValue(value, input) ==
  IF input.kind = "insert" THEN Append(value, input.ch)
  ELSE SubSeq(value, 1, Len(value) - 1)

\* ------------------------------------------------------------- history

\* The keys the specification calls suppressed.
SuppressedKey(e) ==
  e.key \in {"F1", "Escape", "Tab"} \/ e.ctrlKey \/ e.metaKey

\* The kind of a key-down, by the event alone.
EventClass(e) ==
  IF SuppressedKey(e) THEN "suppressed"
  ELSE IF e.key \in PrintableKeys THEN (IF e.repeat THEN "repeat" ELSE "press")
  ELSE IF e.key \in {"Enter", "Backspace"} THEN e.key
  ELSE "other"

\* a non-repeat key-down of a printable key without ctrl or meta, handled
\* while Idle or Recording, opens the hold of the key or adds to it
HoldDown(h, e) ==
  IF EventClass(e) = "press" /\ ~isCompleted
  THEN [h EXCEPT !.hold[e.key] =
          IF h.hold[e.key].kind # "none" THEN [kind |-> "many", first |-> 0]
          ELSE IF isRecording THEN [kind |-> "one", first |-> now]
          ELSE [kind |-> "idle", first |-> 0]]
  ELSE h

\* a key-up closes the hold of its key
HoldUp(h, key) ==
  IF key \in PrintableKeys THEN [h EXCEPT !.hold[key] = NoHold] ELSE h

\* submitData has sent a request
Posted(h, submit) == IF submit THEN [h EXCEPT !.posts = @ + 1] ELSE h

\* A fetch that has not settled: its URL, and the username and the view of
\* the render that called it, which the code after the await reads; outdated:
\* the attempt it was called in has been reset since (history).
Request(endpoint, userId, v) ==
  [endpoint |-> endpoint, userId |-> userId, view |-> v, outdated |-> FALSE]

\* line 49: the URL of the training count (of the user of the request)
StatsEndpoint == "/api/users/{id}/stats"

\* lines 47-49: the request fetchStats sends
fetchStats(userId, v) == Request(StatsEndpoint, userId, v)

\* the attempt is reset: the submissions not settled are those of an earlier
\* one
Outdated(requests) ==
  {IF r.endpoint = StatsEndpoint THEN r ELSE [r EXCEPT !.outdated = TRUE] :
     r \in requests}

\* ------------------------------------------------------------ the actions

\* onKeyDown of the textarea (line 339) for the event e
KeyDownOf(e) ==
  LET out == handleKeyDown(e) IN
  /\ view # "home"
  /\ domInput = NoInput
  /\ Commit([out.c EXCEPT
               !.hist = Posted(HoldDown(out.c.hist, e), out.submit)])
  /\ sent' = IF out.submit THEN Payload ELSE NoPost
  /\ inflight' =
       IF out.submit
       THEN inflight \cup {Request(Endpoint(view), username, view)}
       ELSE inflight
  /\ domInput' = DefaultAction(e, out.prevented, out.c.text)
  /\ UNCHANGED <<view, username, trainCount, now>>
  /\ last' = LastOf(EventClass(e), StateName)

KeyDown == \E e \in KeyDownEvents : KeyDownOf(e)

\* onKeyUp of the textarea (line 340) for the key
KeyUpOf(key) ==
  LET c == handleKeyUp([key |-> key]) IN
  /\ view # "home"
  /\ domInput = NoInput
  /\ Len(c.keystrokeData) <= MaxEvents
  /\ Commit([c EXCEPT !.hist = HoldUp(c.hist, key)])
  /\ sent' = NoPost
  /\ UNCHANGED <<view, username, trainCount, now, domInput, inflight>>
  /\ last' = LastOf("keyup", StateName)

KeyUp == \E key \in KeyUpKeys : KeyUpOf(key)

\* onChange of the textarea (line 338), after a key-down
Input ==
  /\ domInput # NoInput
  /\ Commit(handleChange(EditedValue(text, domInput)))
  /\ domInput' = NoInput
  /\ sent' = NoPost
  /\ UNCHANGED <<view, username, trainCount, now, inflight>>
  /\ last' = LastOf("change", StateName)

\* onChange of the textarea without a key event (text pasted with the mouse)
Paste ==
  /\ view # "home"
  /\ domInput = NoInput
  /\ ~isCompleted
  /\ Len(text) < MaxText
  /\ Commit(handleChange(Append(text, "a")))
  /\ sent' = NoPost
  /\ UNCHANGED <<view, username, trainCount, now, domInput, inflight>>
  /\ last' = LastOf("paste", StateName)

\* lines 362-369: the restart button, shown once isCompleted
ClickRestart ==
  /\ view # "home"
  /\ domInput = NoInput
  /\ isCompleted
  /\ Commit(resetInternalState(Cur))
  /\ sent' = NoPost
  /\ inflight' = Outdated(inflight)
  /\ UNCHANGED <<view, username, trainCount, now, domInput>>
  /\ last' = LastOf("restart", StateName)

\* ClickMode with the buttons enabled whatever the username
ClickModeAnyUser ==
  \E v \in {"train", "test"} :
    /\ view = "home"
    /\ view' = v
    /\ Commit(resetInternalState(Cur))
    /\ sent' = NoPost
    /\ inflight' =
         Outdated(inflight)
           \cup (IF v = "train" /\ username # ""
                 THEN {fetchStats(username, v)} ELSE {})
    /\ UNCHANGED <<username, trainCount, now, domInput>>
    /\ last' = LastOf("mode", StateName)

\* lines 260-275 and the effect of lines 35-44: the TRAIN and TEST buttons of
\* the home view, enabled once a username is entered
ClickMode ==
  \E v \in {"train", "test"} :
    /\ view = "home"
    /\ username # ""
    /\ view' = v
    /\ Commit(resetInternalState(Cur))
    /\ sent' = NoPost
    /\ inflight' =
         Outdated(inflight)
           \cup (IF v = "train" /\ username # ""
                 THEN {fetchStats(username, v)} ELSE {})
    /\ UNCHANGED <<username, trainCount, now, domInput>>
    /\ last' = LastOf("mode", StateName)

\* line 284: the back button of the train and test views
ClickBack ==
  /\ view # "home"
  /\ domInput = NoInput
  /\ view' = "home"
  /\ sent' = NoPost
  /\ UNCHANGED <<username, trainCount, isRecording, isCompleted,
                 keystrokeData, text, lastResponse, errorMsg,
                 verificationMatrix, sessionStartTime, keyDownTimes, now,
                 domInput, inflight, hist>>
  /\ last' = LastOf("home", StateName)

\* lines 253-259: the username field of the home view
TypeUsername ==
  \E u \in Usernames :
    /\ view = "home"
    /\ u # username
    /\ username' = u
    /\ sent' = NoPost
    /\ UNCHANGED <<view, trainCount, isRecording, isCompleted,
                   keystrokeData, text, lastResponse, errorMsg,
                   verificationMatrix, sessionStartTime, keyDownTimes, now,
                   domInput, inflight, hist>>
    /\ last' = LastOf("username", StateName)

\* ErrorMessage that sets no message
ErrorMessageNone(outcome) == ""

\* lines 117 and 131: the message of a failed submission: data.detail of an
\* answer that is not ok (the API's HTTPException), or the message of the
\* catch (fetch or res.json() rejected)
ErrorMessage(outcome) ==
  IF outcome = "notok" THEN "detail"
  ELSE "Network error - could not connect to API"

\* lines 107-132: the fetch of submitData settles; view and username are the
\* ones of the render that sent the request, and so is the fetchStats that
\* line 124 calls
FetchSettle ==
  \E r \in inflight, outcome \in {"ok", "notok", "error"} :
    LET data == [userId |-> r.userId, endpoint |-> r.endpoint] IN
    /\ r.endpoint # StatsEndpoint
    /\ domInput = NoInput
    /\ CASE outcome = "ok" ->
              /\ lastResponse' = data
              /\ verificationMatrix' =
                   IF r.view = "train" THEN verificationMatrix
                   ELSE IF r.view = "test" THEN data
                   ELSE verificationMatrix
              /\ inflight' =
                   (inflight \ {r})
                     \cup (IF r.view = "train"
                           THEN {fetchStats(r.userId, r.view)} ELSE {})
              /\ UNCHANGED errorMsg
         [] OTHER ->
              /\ errorMsg' = ErrorMessage(outcome)
              /\ inflight' = inflight \ {r}
              /\ UNCHANGED <<lastResponse, verificationMatrix>>
    /\ sent' = NoPost
    /\ UNCHANGED <<view, username, trainCount, isRecording, isCompleted,
                   keystrokeData, text, sessionStartTime, keyDownTimes, now,
                   domInput, hist>>
    /\ last' = LastOf(outcome, StateName)

\* lines 49-56: the fetch of fetchStats settles: with res.ok it sets the
\* training count to the data.sessionCount of the answer, one of counts;
\* otherwise (res.ok false, or fetch rejected) it sets nothing
StatsSettleOf(counts) ==
  \E r \in inflight :
    /\ r.endpoint = StatsEndpoint
    /\ domInput = NoInput
    /\ inflight' = inflight \ {r}
    /\ trainCount' \in counts \cup {trainCount}
    /\ sent' = NoPost
    /\ UNCHANGED <<view, username, isRecording, isCompleted, keystrokeData,
                   text, lastResponse, errorMsg, verificationMatrix,
                   sessionStartTime, keyDownTimes, now, domInput, hist>>
    /\ last' = LastOf("stats", StateName)

StatsSettle == StatsSettleOf(SessionCounts)

\* Date.now() advances
Tick ==
  /\ now < MaxTime
  /\ now' = now + 1
  /\ UNCHANGED <<view, username, trainCount, isRecording, isCompleted,
                 keystrokeData, text, lastResponse, errorMsg,
                 verificationMatrix, sessionStartTime, keyDownTimes, domInput,
                 inflight, sent, hist, last>>

\* What the user does at the keyboard and with the mouse.
UserNext ==
  \/ KeyDown
  \/ KeyUp
  \/ Input
  \/ Paste
  \/ ClickRestart
  \/ ClickMode
  \/ ClickBack
  \/ TypeUsername

\* The whole system: the response of the API to a request may arrive at any
\* time after it.
Next ==
  \/ UserNext
  \/ FetchSettle
  \/ StatsSettle
  \/ Tick

Spec == Init /\ [][Next]_vars

\* The system with an API that answers before the user's next event, and
\* that does not serve the training count (res.ok is false, line 50).  The
\* responses write lastResponse, errorMsg, verificationMatrix and trainCount
\* only, which no handler reads.
RecorderNext ==
  \/ inflight = {} /\ UserNext
  \/ FetchSettle
  \/ StatsSettleOf({})
  \/ Tick

RecorderSpec == Init /\ [][RecorderNext]_vars

\* The key-down events of a run that types one letter and ends the attempt.
SessionKeyDownEvents ==
  {KeyEvent("a", FALSE, FALSE, FALSE),
   KeyEvent("Enter", FALSE, FALSE, FALSE),
   KeyEvent("Enter", TRUE, FALSE, FALSE)}

\* The system with an API that answers at any time, for a user who types the
\* letter a and Enter, all at one instant of Date.now().
SessionNext ==
  \/ \E e \in SessionKeyDownEvents : KeyDownOf(e)
  \/ KeyUpOf("a")
  \/ Input
  \/ ClickRestart
  \/ ClickMode
  \/ ClickBack
  \/ TypeUsername
  \/ FetchSettle
  \/ StatsSettle

SessionSpec == Init /\ [][SessionNext]_vars

\* ------------------------------------------------------------- the claims

\* A claim about the call of a handler is a property of the steps of that
\* handler: KeyDownOf(e), KeyUpOf(k).  The test of last' in front of it is
\* implied by the handler's step and only spares the evaluation of the
\* handler on the steps of the others.

\* C1: for every printable key, a non-repeat key-down without ctrl or meta
\* handled while Idle or Recording (the hold of the key is open), followed by
\* the key-up of that key handled while Recording, appends exactly one event
\* for that key to the event list and clears the buffered press time of the
\* key; also for the key-down that fires Idle -> Recording.
C1_KeyUpAppendsOneEvent ==
  [][(Recording /\ last'.op = "keyup") =>
       \A k \in PrintableKeys :
         (hist.hold[k].kind # "none" /\ KeyUpOf(k))
           => /\ Len(keystrokeData') = Len(keystrokeData) + 1
              /\ SubSeq(keystrokeData', 1, Len(keystrokeData)) = keystrokeData
              /\ keystrokeData'[Len(keystrokeData')].key
                   = (IF k = " " THEN "Space" ELSE k)
              /\ keyDownTimes'[k] = Undefined]_vars

C3_CompletedUntilReset ==
  [][(isCompleted /\ ~(ClickRestart \/ ClickMode))
       => /\ isCompleted' /\ ~isRecording'
          /\ UNCHANGED <<keystrokeData, keyDownTimes, text>>]_vars

\* a printable key was pressed after the attempt was completed
C3_Witness ==
  /\ last.op = "press" /\ last.at = "Completed" /\ Completed
  /\ Len(keystrokeData) > 0

\* C4: no request is sent with an empty keystroke list: an Enter key-down
\* handled while Recording moves the attempt to Completed; with no event in the
\* list it sends nothing, with one or more it sends one POST whose keystrokes
\* are the event list of that moment.
C4_EnterSubmitsTheEventsIfAny ==
  /\ [](sent # NoPost => Len(sent.keystrokes) > 0)
  /\ [][(Recording /\ last'.op = "Enter") =>
          \A e \in KeyDownEvents :
            (e.key = "Enter" /\ KeyDownOf(e))
              => /\ Completed'
                 /\ IF Len(keystrokeData) = 0
                    THEN sent' = NoPost /\ inflight' = inflight
                    ELSE /\ sent' # NoPost
                         /\ sent'.keystrokes = keystrokeData
                         /\ inflight' # inflight]_vars

\* Enter has sent the events of the attempt
C4_Witness ==
  /\ last.op = "Enter" /\ last.at = "Recording" /\ Completed
  /\ sent # NoPost
  /\ sent.keystrokes = keystrokeData

\* C5: a Backspace key-down handled while Recording removes the last event of
\* a non-empty event list and nothing else of it, leaves an empty list
\* empty, and changes neither the buffer of press times, the session start
\* time nor isRecording and isCompleted.
C5_BackspaceDropsTheLastEvent ==
  [][(Recording /\ last'.op = "Backspace") =>
       \A e \in KeyDownEvents :
         (e.key = "Backspace" /\ KeyDownOf(e))
           => /\ keystrokeData' =
                   IF Len(keystrokeData) > 0
                   THEN SubSeq(keystrokeData, 1, Len(keystrokeData) - 1)
                   ELSE keystrokeData
              /\ UNCHANGED <<keyDownTimes, sessionStartTime, isRecording,
                             isCompleted>>]_vars

\* Backspace has removed the second of two events: with no text to delete
\* (domInput) the event list is all it changes
C5_Witness ==
  /\ last.op = "Backspace" /\ last.at = "Recording" /\ last.did
  /\ domInput = NoInput
  /\ Len(keystrokeData) = 1

\* C6: the event list mirrors the typed text: in every Recording state in
\* which no press is buffered (and no input event is still to be dispatched)
\* the number of events is the number of characters of the text.
C6_EventsMirrorText ==
  (Recording /\ domInput = NoInput
     /\ \A k \in PrintableKeys : keyDownTimes[k] = Undefined)
    => Len(keystrokeData) = Len(text)

\* C7: a key-down flagged as auto-repeat leaves the buffer of press times as
\* it is, so a hold of a key handled while Recording (one non-repeat key-down,
\* any number of repeats, the key-up) appends exactly one event, whose press
\* time is the time of the non-repeat key-down of the hold.
C7_OneEventPerHold ==
  /\ [][last'.op = "repeat" =>
          \A e \in KeyDownEvents :
            (e.repeat /\ KeyDownOf(e)) => UNCHANGED keyDownTimes]_vars
  /\ [][(Recording /\ last'.op = "keyup") =>
          \A k \in PrintableKeys :
            (hist.hold[k].kind = "one" /\ KeyUpOf(k))
              => /\ Len(keystrokeData') = Len(keystrokeData) + 1
                 /\ SubSeq(keystrokeData', 1, Len(keystrokeData))
                      = keystrokeData
                 /\ keystrokeData'[Len(keystrokeData')].pressTime
                      = hist.hold[k].first - sessionStartTime]_vars

\* a key was auto-repeated later than it was pressed, and the buffer holds
\* the time of the press
C7_Witness ==
  /\ last.op = "repeat" /\ last.at = "Recording"
  /\ \E k \in PrintableKeys :
       /\ hist.hold[k].kind = "one"
       /\ hist.hold[k].first < now
       /\ keyDownTimes[k] = hist.hold[k].first - sessionStartTime

\* C8: the first event of the list has flightTime 0 and every later event has
\* flightTime = its pressTime - the releaseTime of the event before it in the
\* list, negative when it was pressed before that release.
C8_FlightFromPredecessor ==
  \A i \in 1..Len(keystrokeData) :
    keystrokeData[i].flightTime =
      IF i = 1 THEN 0
      ELSE keystrokeData[i].pressTime - keystrokeData[i - 1].releaseTime

\* an event with a negative flightTime is in the list
C8_Witness ==
  \E i \in 1..Len(keystrokeData) : keystrokeData[i].flightTime < 0

\* C9: every event of the list has dwellTime = releaseTime - pressTime and
\* releaseTime >= pressTime >= 0, and both times are Date.now() at the
\* key-down and at the key-up less the session start time of the attempt.
C9_TimesAreOffsetsFromStart ==
  \A i \in 1..Len(keystrokeData) :
    LET k == keystrokeData[i] IN
    /\ k.dwellTime = k.releaseTime - k.pressTime
    /\ k.releaseTime >= k.pressTime
    /\ k.pressTime >= 0
    /\ sessionStartTime # Null
    /\ Len(hist.abs) = Len(keystrokeData)
    /\ k.pressTime = hist.abs[i].p - sessionStartTime
    /\ k.releaseTime = hist.abs[i].r - sessionStartTime

\* an event with a dwellTime above 0 is in the list
C9_Witness ==
  \E i \in 1..Len(keystrokeData) : keystrokeData[i].dwellTime > 0

\* C10: the releaseTime values along the event list never decrease.
C10_ReleaseOrder ==
  \A i, j \in 1..Len(keystrokeData) :
    i < j => keystrokeData[i].releaseTime <= keystrokeData[j].releaseTime

\* two events in the list, the first pressed later than the second
C10_Witness ==
  /\ Len(keystrokeData) = 2
  /\ keystrokeData[1].pressTime > keystrokeData[2].pressTime

\* C11: a key whose press is buffered when Enter finalizes the attempt
\* contributes no event: the Enter key-down appends nothing, and the keystrokes
\* it submits are the events of the key-ups handled so far.  A key-up handled
\* once the attempt is Completed appends nothing, leaves the buffer as it is
\* and sets no error message.
C11_HeldKeyIsDropped ==
  /\ [][(Recording /\ last'.op = "Enter") =>
          \A e \in KeyDownEvents :
            (/\ e.key = "Enter"
             /\ \E k \in PrintableKeys : keyDownTimes[k] # Undefined
             /\ KeyDownOf(e))
              => /\ keystrokeData' = keystrokeData
                 /\ sent' # NoPost =>
                      /\ sent'.keystrokes = keystrokeData
                      /\ Len(sent'.keystrokes) = Len(hist.abs)]_vars
  /\ [][(isCompleted /\ last'.op = "keyup") =>
          \A k \in KeyUpKeys :
            KeyUpOf(k) =>
              UNCHANGED <<keystrokeData, keyDownTimes, errorMsg, isRecording,
                          isCompleted, inflight>>]_vars

\* the key-up of a key that was held when Enter submitted the attempt has been
\* handled, and the attempt still has the one event it submitted
C11_Witness ==
  /\ last.op = "keyup" /\ last.at = "Completed" /\ Completed
  /\ \E k \in PrintableKeys : keyDownTimes[k] # Undefined
  /\ Len(keystrokeData) = 1
  /\ hist.posts = 1

\* C12: a request of submitData is sent only by an Enter key-down handled
\* while Recording in the train or test view, and its keystrokes are the event
\* list of that moment, every event of which had its key-up handled since the
\* list was last emptied.  A reset (the restart button, a view change to
\* train or test) empties the event list and the buffer and leaves the
\* attempt Idle, and in the home view nothing is sent: the events of an
\* attempt abandoned before Enter are in no request.
C12_AbandonedAttemptIsNotSent ==
  /\ [](Len(hist.abs) = Len(keystrokeData))
  /\ [][(sent' # NoPost \/ hist'.posts > hist.posts) =>
          /\ Recording /\ view \in {"train", "test"}
          /\ last'.op = "Enter"
          /\ sent'.keystrokes = keystrokeData]_vars
  /\ [][last'.op \in {"restart", "mode"} =>
          /\ keystrokeData' = <<>>
          /\ keyDownTimes' = EmptyTimes
          /\ sessionStartTime' = Null
          /\ Idle'
          /\ sent' = NoPost]_vars

\* an attempt with an event is abandoned by the back button before Enter
C12_Witness ==
  /\ last.op = "home" /\ last.at = "Recording"
  /\ view = "home" /\ Recording
  /\ Len(keystrokeData) > 0
  /\ hist.posts = 0

\* C13: the endpoint of every request is the one of the view its events were
\* recorded in: /api/sessions when their key-ups were handled in the train
\* view, /api/verify when they were handled in the test view.
C13_EndpointOfTheMode ==
  sent # NoPost =>
    /\ Len(hist.abs) = Len(sent.keystrokes)
    /\ \A i \in 1..Len(hist.abs) :
         \/ hist.abs[i].view = "train" /\ sent.endpoint = "/api/sessions"
         \/ hist.abs[i].view = "test" /\ sent.endpoint = "/api/verify"

\* a test attempt is submitted while the request of an earlier train attempt
\* has not been answered
C13_Witness ==
  /\ sent # NoPost
  /\ sent.endpoint = "/api/verify"
  /\ \E r \in inflight : r.endpoint = "/api/sessions"

\* C14: the startedAt of every request is the instant of the session start,
\* the one recorded at Idle -> Recording, from which the offsets of the events
\* are measured.
C14_StartedAtIsSessionStart ==
  sent # NoPost => sent.startedAt = toISOString(sessionStartTime)

C16_OneRequestPerAttempt ==
  /\ [](hist.posts <= 1)
  /\ [][(isCompleted /\ last'.op = "Enter") =>
          sent' = NoPost /\ inflight' = inflight]_vars
  /\ [][last'.op \in {"notok", "error"} =>
          sent' = NoPost /\ hist'.posts = hist.posts]_vars

\* Enter is pressed again after the submission of the attempt has failed
C16_Witness ==
  /\ last.op = "Enter" /\ last.at = "Completed" /\ Completed
  /\ hist.posts = 1
  /\ errorMsg # ""
  /\ inflight = {}

\* C17: in the train and test views the username is not empty and does not
\* change, so the userId of every request, sent or not yet answered, is not
\* empty.
C17_IdentityIsNotEmpty ==
  /\ [](view # "home" => username # "")
  /\ [](sent # NoPost => sent.userId # "" /\ sent.userId = username)
  /\ [](\A r \in inflight : r.userId # "")
  /\ [][view # "home" => username' = username]_vars

\* a request is sent in the name of the user
C17_Witness ==
  /\ sent # NoPost
  /\ sent.userId = "u1"
  /\ Len(sent.keystrokes) > 0

\* C18: the recorder is always in exactly one of Idle (start time unset),
\* Recording (start time set) and Completed: isRecording and isCompleted are
\* never both true, and the start time, once recorded at Idle -> Recording,
\* is changed by no step of the attempt (by a reset alone).
C18_OneStateAndOneStart ==
  /\ [](~(isRecording /\ isCompleted))
  /\ [](Idle => sessionStartTime = Null)
  /\ [](isRecording => sessionStartTime \in 1..MaxTime)
  /\ [](Cardinality({n \in {"Idle", "Recording", "Completed"} :
                       \/ n = "Idle" /\ Idle
                       \/ n = "Recording" /\ Recording
                       \/ n = "Completed" /\ Completed}) = 1)
  /\ [][(sessionStartTime # Null /\ last'.op \notin {"restart", "mode"})
          => sessionStartTime' = sessionStartTime]_vars
  /\ [][(Idle /\ Recording') => sessionStartTime' = now]_vars

\* a key is pressed while Recording, later than the session was started, and
\* the start time is the one recorded
C18_Witness ==
  /\ last.op = "press" /\ last.at = "Recording" /\ Recording
  /\ sessionStartTime < now

\* C19: a response is stored in lastResponse and verificationMatrix only in
\* the attempt that sent its request: the response to a request sent before a
\* reset changes neither.
C19_ResultOfThisAttempt ==
  [][\A r \in inflight :
       (r.outdated /\ r \notin inflight')
         => UNCHANGED <<lastResponse, verificationMatrix>>]_vars

\* C20: while a press of a key is buffered, a further key-down of that key,
\* flagged as a repeat or not, leaves the buffered press time as it is,
\* whatever the buffered offset, 0 included.
C20_BufferedPressIsKept ==
  [][last'.op \in {"press", "repeat"} =>
       \A e \in KeyDownEvents :
         (/\ e.key \in PrintableKeys
          /\ keyDownTimes[e.key] # Undefined
          /\ KeyDownOf(e))
           => keyDownTimes'[e.key] = keyDownTimes[e.key]]_vars

\* C21: attempts are isolated.  A reset (the restart button, a view change to
\* train or test) leaves the event list and the buffer of press times empty
\* and the start time unset; every buffered press and every event of the
\* list, and so of a request, had its key-down and its key-up handled since,
\* not before the session of the attempt was started (while Recording a
\* buffered press is one of a key not released since); and the key-up of a
\* key of which no key-down was handled in the attempt (a key held since an
\* earlier one, auto-repeating or not) appends nothing and buffers nothing.
C21_AttemptsAreIsolated ==
  /\ [][last'.op \in {"restart", "mode"} =>
          /\ keystrokeData' = <<>>
          /\ keyDownTimes' = EmptyTimes
          /\ sessionStartTime' = Null]_vars
  /\ [](\A k \in PrintableKeys :
          keyDownTimes[k] # Undefined =>
            /\ Recording => hist.hold[k].kind # "none"
            /\ hist.pressedAt[k] \in sessionStartTime..now)
  /\ [](/\ Len(hist.abs) = Len(keystrokeData)
        /\ \A i \in 1..Len(hist.abs) :
             /\ hist.abs[i].p \in sessionStartTime..now
             /\ hist.abs[i].r \in hist.abs[i].p..now
             /\ hist.abs[i].view = view \/ view = "home")
  /\ [](sent # NoPost => sent.keystrokes = keystrokeData)
  /\ [][(Recording /\ last'.op = "keyup") =>
          \A k \in PrintableKeys :
            (hist.hold[k].kind = "none" /\ KeyUpOf(k))
              => UNCHANGED <<keystrokeData, keyDownTimes>>]_vars

\* in an attempt that follows a submitted one and was started by Enter, the
\* key-up of the letter, of which the attempt has handled no key-down, is
\* handled while Recording and changes nothing
C21_Witness ==
  /\ last.op = "keyup" /\ last.at = "Recording" /\ ~last.did
  /\ Recording
  /\ keystrokeData = <<>>
  /\ keyDownTimes = EmptyTimes
  /\ \E r \in inflight : r.outdated

====
